---- MODULE Spec2Model ----
(***************************************************************************)
(* Model of kaltura-simple-react-components: the Player adapter            *)
(* (lib/components/Player.js), the player registry and its hover           *)
(* coordinator (lib/components/PlayersGallery.js) and the search view      *)
(* (lib/components/EmbeddedKalturaSearchView.js, which also holds          *)
(* SearchResultsWithGallery).                                              *)
(*                                                                         *)
(* React semantics the model keeps:                                        *)
(*  - a function component's handlers and timer callbacks are closures     *)
(*    over the state values of the render that created them; a callback    *)
(*    kept by useCallback is the closure of the last render in which one   *)
(*    of its dependencies changed;                                         *)
(*  - all the listeners React runs for one native event (the leave and     *)
(*    enter listeners of one pointer move) run against the same render,    *)
(*    and the component re-renders when the batch is over;                 *)
(*  - setTimeout callbacks with equal delays run in creation order.        *)
(***************************************************************************)
EXTENDS Integers, Sequences, FiniteSets, TLC

\* ---------------------------------------------------------------- bounds
\* number of entries of data.ref in the rendered search result
NumEntries == 2
\* number of setTimeout callbacks that may be pending at once
MaxTimers == 3
\* number of native pointer events in a run
MaxMoves == 4

\* ------------------------------------------------------------- JS values
\* null of an index-valued state (highlightedIndex, hoverVideoId), also the
\* "not found" result of Array.prototype.findIndex
NullIndex == -1
\* null of a timer-id-valued state (setTimeout ids are positive)
NullTimer == 0
\* null of an identifier-valued state (playingUniqueGuiId)
NullId == "null"
\* seekTime = null
NoSeek == -1

VARIABLES
    \* --- the rendered search result (props of PlayersGallery)
    dataRef,             \* data.ref: sequence of [uniqueGuiId, entry_id, time]
    shouldPlayOnHover,   \* prop
    instLive,            \* the gallery Players hold a live vendor instance
    \* --- pointer and timers (environment)
    pointer,             \* element under the pointer: [el, i]
    timers,              \* pending setTimeout callbacks, oldest first
    \* --- SearchResultsWithGallery state
    highlightedIndex,
    hoverTimerId,
    isHovering,
    \* --- PlayersGallery state
    hoverVideoId,
    playingUniqueGuiId,
    mouseLeaveTimeout,
    handlePlaying,       \* playingUniqueGuiId as closed over by the imperative handle
    cbRefsReady,         \* playerRefs as closed over by the memoized hover callbacks
    cbPlaying,           \* playingUniqueGuiId as closed over by them
    \* --- vendor players
    vstate,              \* uniqueGuiId -> "playing" | "paused"
    \* --- observation
    lastOp,              \* what the last step was and what it issued
    phase,               \* "rapid" | "settled" | "void" (see Observe)
    moves,               \* pointer moves made in the rapid phase
    issued,              \* vendor commands issued so far (until void)
    commits,             \* indices committed Active so far (until void)
    mountState           \* "mounted" | "galleryUnmounted" | "unmounted"

hoverVars == <<dataRef, shouldPlayOnHover, instLive, pointer, timers,
               highlightedIndex, hoverTimerId, isHovering, hoverVideoId,
               playingUniqueGuiId, mouseLeaveTimeout, handlePlaying,
               cbRefsReady, cbPlaying, vstate, lastOp, phase, moves, issued,
               commits, mountState>>

VARIABLES
    \* --- Player.js: module state and the page
    scriptLoadedGlobally,
    appended,            \* the script elements appended to document.body
    pendingScripts,      \* those still loading, each with the closure of its effect
    instances,           \* the vendor players KalturaPlayer.setup has returned
    \* --- Player.js: per adapter
    mounted,             \* "never" | "mounted" | "unmounted"
    playerInstance,      \* state: index into instances, or NullInst
    config,              \* props.partnerId / props.uiConfId
    entryId,             \* props.entryId
    cleanupInst,         \* playerInstance as closed over by the cleanup effect
    configChanges,       \* number of partnerId/uiConfId changes so far
    serviceUrl           \* props.kalturaServiceUrl

VARIABLES
    \* --- Player.js: the other props of an adapter
    isPlaying,           \* props.isPlaying
    seekToProp,          \* props.seekTo
    onError,             \* props.onError: "null" | "function" | "string"
    \* --- EmbeddedKalturaSearchView props
    startInAutoPlay,
    \* --- what the adapters have done to their callers and to the console
    consoleErrors,       \* the console.error calls of script.onerror
    errorEvents,         \* the ERROR events the vendor players raised, each
                         \* with the adapter that owns the player
    onErrorCalls,        \* the calls of props.onError, each with its event
    handleCalls          \* number of calls made on the Players' handles

propVars == <<isPlaying, seekToProp, onError, startInAutoPlay, consoleErrors,
              errorEvents, onErrorCalls, handleCalls>>

playerVars == <<scriptLoadedGlobally, appended, pendingScripts, instances,
                mounted, playerInstance, config, entryId, cleanupInst,
                configChanges, serviceUrl, propVars>>

VARIABLES
    \* --- EmbeddedKalturaSearchView state
    searchQuery,
    lastSearchQuery,
    isSearching,
    \* --- SearchResultsWithGallery state
    data,
    isLoading,
    error,
    isFetched,
    \* --- the network
    inflight,            \* the fetch requests not yet answered, oldest first
    \* --- observation
    searchOp             \* the last step, the view it started from and the
                         \* number of requests it issued

searchVars == <<searchQuery, lastSearchQuery, isSearching, data, isLoading,
                error, isFetched, inflight, searchOp>>

vars == <<hoverVars, playerVars, searchVars>>

\* =============================================================== Player.js
\* number of Player adapters on the page
NumPlayers == 2
\* number of partnerId / uiConfId prop changes in a run
MaxConfigChanges == 1

\* number of ERROR events the vendor players raise in a run
MaxErrors == 2
\* number of calls made on the handle of a Player in a run
MaxPlayerCalls == 2

\* playerInstance = null
NullInst == 0

Adapters == 1 .. NumPlayers

\* values of the (partnerId, uiConfId) props
Configs == {"conf1", "conf2"}

EntryIds == {"e1", "e2"}

DEFAULT_KALTURA_URL == "https://cdnapi-ev.kaltura.com"

\* the kalturaServiceUrl prop: "" , a configured URL, or null (defaultProps
\* replace undefined only)
ServiceUrls == {"", "https://custom", "null"}

\* props.kalturaServiceUrl || props.kalturaServiceUrl === ""
\*     ? DEFAULT_KALTURA_URL : props.kalturaServiceUrl
\* (the conditional binds weaker than ||)
KalturaServiceUrl(prop) ==
    IF (prop \notin {"", "null"}) \/ prop = ""
    THEN DEFAULT_KALTURA_URL
    ELSE prop

\* `${kalturaServiceUrl}/p/${partnerId}/embedPlaykitJs/uiconf_id/${uiConfId}`
ScriptUrl(prop, cfg) == <<KalturaServiceUrl(prop), "/p/", cfg, "/embedPlaykitJs/uiconf_id/", cfg>>

PlayerState ==
    [instances |-> instances, playerInstance |-> playerInstance,
     appended |-> appended, pendingScripts |-> pendingScripts]

\* values of props.seekTo besides null
SeekTos == {NoSeek, 7}

\* values of props.onError: none (defaultProps), a function, something else
OnErrors == {"null", "function", "string"}

\* the props EmbeddedKalturaSearchView gives SearchResultsWithGallery: its
\* startInAutoPlay goes under the name autoPlay, and startInAutoPlay itself
\* is not passed, so that it takes its default
SearchResultsProps(viewStartInAutoPlay) ==
    [autoPlay |-> viewStartInAutoPlay, startInAutoPlay |-> FALSE]

\* the autoPlay prop SearchResultsWithGallery gives PlayersGallery:
\* props.startInAutoPlay
GalleryAutoPlay(props) == props.startInAutoPlay

\* the autoPlay prop PlayersGallery gives each Player: it does not read its
\* own autoPlay prop and writes autoPlay={false}
PlayerAutoPlay(galleryAutoPlay) == FALSE

\* the autoPlay prop of a gallery Player under a search view
AutoPlayOf(viewStartInAutoPlay) ==
    PlayerAutoPlay(GalleryAutoPlay(SearchResultsProps(viewStartInAutoPlay)))

\* the closure of one render of adapter p: its state and props
RenderOf(p) ==
    [owner |-> p, inst |-> playerInstance[p], config |-> config[p],
     entryId |-> entryId[p], autoPlay |-> AutoPlayOf(startInAutoPlay),
     onError |-> onError[p]]

\* instance.destroy()
Destroy(insts, i) == [insts EXCEPT ![i].destroyed = TRUE]

\* a setup that does not test playerContainerRef.current
setupKalturaPlayerDetached(ps, clos, loaded, attached) ==
    IF loaded
    THEN LET i1 == IF clos.inst # NullInst
                   THEN Destroy(ps.instances, clos.inst)
                   ELSE ps.instances
             instance == [owner |-> clos.owner, destroyed |-> FALSE,
                          config |-> clos.config, entryId |-> clos.entryId,
                          autoplay |-> clos.autoPlay, onError |-> clos.onError,
                          lastCmd |-> "none", currentTime |-> NoSeek]
             i2 == Append(i1, instance)
         IN  [ps EXCEPT !.instances = i2,
                        !.playerInstance[clos.owner] = Len(i2)]
    ELSE ps

\* setupKalturaPlayer() of the render clos, with window.KalturaPlayer
\* defined iff a vendor script has run (loaded) and playerContainerRef.current
\* set iff the adapter is mounted (attached)
setupKalturaPlayer(ps, clos, loaded, attached) ==
    IF loaded /\ attached
    THEN LET i1 == IF clos.inst # NullInst
                   THEN Destroy(ps.instances, clos.inst)
                   ELSE ps.instances
             instance == [owner |-> clos.owner, destroyed |-> FALSE,
                          config |-> clos.config, entryId |-> clos.entryId,
                          autoplay |-> clos.autoPlay, onError |-> clos.onError,
                          lastCmd |-> "none", currentTime |-> NoSeek]
             i2 == Append(i1, instance)
         IN  [ps EXCEPT !.instances = i2,
                        !.playerInstance[clos.owner] = Len(i2)]
    ELSE ps

\* the effect with dependencies [props.partnerId, props.uiConfId]
ScriptEffect(ps, clos, by) ==
    IF scriptLoadedGlobally
    THEN setupKalturaPlayer(ps, clos, TRUE, TRUE)
    ELSE LET script == [url |-> ScriptUrl(serviceUrl, clos.config),
                        by |-> by, clos |-> clos]
         IN  [ps EXCEPT !.appended = Append(@, script),
                        !.pendingScripts = Append(@, script)]

PlayerCommit(ps) ==
    /\ instances' = ps.instances
    /\ playerInstance' = ps.playerInstance
    /\ appended' = ps.appended
    /\ pendingScripts' = ps.pendingScripts

RemoveAt(seq, k) == SubSeq(seq, 1, k - 1) \o SubSeq(seq, k + 1, Len(seq))

\* the Players get none of isPlaying, seekTo and onError, as in the gallery,
\* and nothing has happened yet
PropsDefault ==
    /\ isPlaying = [p \in Adapters |-> FALSE]
    /\ seekToProp = [p \in Adapters |-> NoSeek]
    /\ onError = [p \in Adapters |-> "null"]
    /\ consoleErrors = <<>>
    /\ errorEvents = <<>>
    /\ onErrorCalls = <<>>
    /\ handleCalls = 0

\* no Player is on the page
PlayerAbsent ==
    /\ scriptLoadedGlobally = FALSE
    /\ appended = <<>>
    /\ pendingScripts = <<>>
    /\ instances = <<>>
    /\ mounted = [p \in Adapters |-> "never"]
    /\ playerInstance = [p \in Adapters |-> NullInst]
    /\ config = [p \in Adapters |-> "conf1"]
    /\ entryId = [p \in Adapters |-> "e1"]
    /\ cleanupInst = [p \in Adapters |-> NullInst]
    /\ configChanges = 0
    /\ serviceUrl = ""
    /\ PropsDefault
    /\ startInAutoPlay = FALSE

\* the page before the Players of a gallery have mounted; all Players get
\* the same account and configuration, as the module's comment assumes
PlayerPageInit ==
    /\ scriptLoadedGlobally = FALSE
    /\ appended = <<>>
    /\ pendingScripts = <<>>
    /\ instances = <<>>
    /\ mounted = [p \in Adapters |-> "never"]
    /\ playerInstance = [p \in Adapters |-> NullInst]
    /\ config = [p \in Adapters |-> "conf1"]
    /\ entryId \in [Adapters -> EntryIds]
    /\ cleanupInst = [p \in Adapters |-> NullInst]
    /\ configChanges = 0
    /\ serviceUrl \in ServiceUrls
    /\ PropsDefault
    /\ startInAutoPlay \in BOOLEAN

\* first render of adapter p and its effects, in order: the isPlaying effect
\* and the entryId effect find playerInstance null, the script effect runs,
\* the cleanup effect keeps the closure of this render
Mount(p) ==
    /\ mounted[p] = "never"
    /\ mounted' = [mounted EXCEPT ![p] = "mounted"]
    /\ cleanupInst' = [cleanupInst EXCEPT ![p] = playerInstance[p]]
    /\ PlayerCommit(ScriptEffect(PlayerState, RenderOf(p), "mount"))
    /\ UNCHANGED <<scriptLoadedGlobally, config, entryId, configChanges, serviceUrl>>
    /\ UNCHANGED <<propVars, hoverVars, searchVars>>

\* script.onload of the k-th loading script
ScriptOnload(k) ==
    /\ k \in 1 .. Len(pendingScripts)
    /\ scriptLoadedGlobally' = TRUE
    /\ LET ps == [PlayerState EXCEPT !.pendingScripts = RemoveAt(@, k)]
           clos == pendingScripts[k].clos
       IN  PlayerCommit(setupKalturaPlayer(ps, clos, TRUE,
                                           mounted[clos.owner] = "mounted"))
    /\ UNCHANGED <<mounted, config, entryId, cleanupInst, configChanges, serviceUrl>>
    /\ UNCHANGED <<propVars, hoverVars, searchVars>>

\* script.onerror that also takes the script for loaded
ScriptOnerrorSetsFlag(k) ==
    /\ k \in 1 .. Len(pendingScripts)
    /\ pendingScripts' = RemoveAt(pendingScripts, k)
    /\ consoleErrors' = Append(consoleErrors, pendingScripts[k].clos.owner)
    /\ scriptLoadedGlobally' = TRUE
    /\ UNCHANGED <<appended, instances, mounted,
                   playerInstance, config, entryId, cleanupInst,
                   configChanges, serviceUrl>>
    /\ UNCHANGED <<isPlaying, seekToProp, onError, startInAutoPlay, errorEvents,
                   onErrorCalls, handleCalls>>
    /\ UNCHANGED <<hoverVars, searchVars>>

\* script.onerror of the k-th loading script: console.error only
ScriptOnerror(k) ==
    /\ k \in 1 .. Len(pendingScripts)
    /\ pendingScripts' = RemoveAt(pendingScripts, k)
    /\ consoleErrors' = Append(consoleErrors, pendingScripts[k].clos.owner)
    /\ UNCHANGED <<scriptLoadedGlobally, appended, instances, mounted,
                   playerInstance, config, entryId, cleanupInst,
                   configChanges, serviceUrl>>
    /\ UNCHANGED <<isPlaying, seekToProp, onError, startInAutoPlay, errorEvents,
                   onErrorCalls, handleCalls>>
    /\ UNCHANGED <<hoverVars, searchVars>>

\* the parent changes partnerId / uiConfId: re-render, the script effect
\* runs again with the closure of the new render
SetConfig(p, cfg) ==
    /\ mounted[p] = "mounted"
    /\ cfg # config[p]
    /\ configChanges < MaxConfigChanges
    /\ configChanges' = configChanges + 1
    /\ config' = [config EXCEPT ![p] = cfg]
    /\ PlayerCommit(ScriptEffect(PlayerState,
                                 [RenderOf(p) EXCEPT !.config = cfg], "config"))
    /\ UNCHANGED <<scriptLoadedGlobally, mounted, entryId, cleanupInst, serviceUrl>>
    /\ UNCHANGED <<propVars, hoverVars, searchVars>>

\* the parent changes entryId: re-render, the entryId effect calls loadMedia
SetEntryId(p, e) ==
    /\ mounted[p] = "mounted"
    /\ e # entryId[p]
    /\ entryId' = [entryId EXCEPT ![p] = e]
    /\ instances' = IF playerInstance[p] # NullInst
                    THEN [instances EXCEPT ![playerInstance[p]].entryId = e]
                    ELSE instances
    /\ UNCHANGED <<scriptLoadedGlobally, appended, pendingScripts, mounted,
                   playerInstance, config, cleanupInst, configChanges, serviceUrl>>
    /\ UNCHANGED <<propVars, hoverVars, searchVars>>

\* an unmount that clears the module's flag
UnmountResetsFlag(p) ==
    /\ mounted[p] = "mounted"
    /\ mounted' = [mounted EXCEPT ![p] = "unmounted"]
    /\ scriptLoadedGlobally' = FALSE
    /\ instances' = IF cleanupInst[p] # NullInst
                    THEN Destroy(instances, cleanupInst[p])
                    ELSE instances
    /\ UNCHANGED <<appended, pendingScripts,
                   playerInstance, config, entryId, cleanupInst,
                   configChanges, serviceUrl>>
    /\ UNCHANGED <<propVars, hoverVars, searchVars>>

\* adapter p unmounts: the cleanup of the [] effect runs, with the
\* playerInstance of the render that created it; the container ref is cleared
Unmount(p) ==
    /\ mounted[p] = "mounted"
    /\ mounted' = [mounted EXCEPT ![p] = "unmounted"]
    /\ instances' = IF cleanupInst[p] # NullInst
                    THEN Destroy(instances, cleanupInst[p])
                    ELSE instances
    /\ UNCHANGED <<scriptLoadedGlobally, appended, pendingScripts,
                   playerInstance, config, entryId, cleanupInst,
                   configChanges, serviceUrl>>
    /\ UNCHANGED <<propVars, hoverVars, searchVars>>

\* an effect that destroys the player instead of pausing it
PlayingEffectDestroys(insts, inst, playing, seek) ==
    IF inst # NullInst
    THEN IF playing
         THEN [insts EXCEPT ![inst].lastCmd = "play"]
         ELSE Destroy(insts, inst)
    ELSE insts

\* the effect with dependencies [props.isPlaying, props.seekTo], in a render
\* whose playerInstance is inst
PlayingEffect(insts, inst, playing, seek) ==
    IF inst # NullInst
    THEN [insts EXCEPT
            ![inst].lastCmd = IF playing THEN "play" ELSE "pause",
            ![inst].currentTime = IF seek # NoSeek THEN seek ELSE @]
    ELSE insts

\* the parent changes isPlaying: re-render, the effect runs
SetIsPlaying(p, b) ==
    /\ mounted[p] = "mounted"
    /\ b # isPlaying[p]
    /\ isPlaying' = [isPlaying EXCEPT ![p] = b]
    /\ instances' = PlayingEffect(instances, playerInstance[p], b, seekToProp[p])
    /\ UNCHANGED <<scriptLoadedGlobally, appended, pendingScripts, mounted,
                   playerInstance, config, entryId, cleanupInst,
                   configChanges, serviceUrl>>
    /\ UNCHANGED <<seekToProp, onError, startInAutoPlay, consoleErrors,
                   errorEvents, onErrorCalls, handleCalls>>
    /\ UNCHANGED <<hoverVars, searchVars>>

\* the parent changes seekTo: re-render, the same effect runs
SetSeekTo(p, t) ==
    /\ mounted[p] = "mounted"
    /\ t # seekToProp[p]
    /\ seekToProp' = [seekToProp EXCEPT ![p] = t]
    /\ instances' = PlayingEffect(instances, playerInstance[p], isPlaying[p], t)
    /\ UNCHANGED <<scriptLoadedGlobally, appended, pendingScripts, mounted,
                   playerInstance, config, entryId, cleanupInst,
                   configChanges, serviceUrl>>
    /\ UNCHANGED <<isPlaying, onError, startInAutoPlay, consoleErrors,
                   errorEvents, onErrorCalls, handleCalls>>
    /\ UNCHANGED <<hoverVars, searchVars>>

\* a listener that calls props.onError without testing it
ErrorListenerUnchecked(calls, instance, e) ==
    Append(calls, [event |-> e, owner |-> instance.owner])

\* the listener setupKalturaPlayer adds for instance.Event.ERROR; its props
\* are those of the render that set the instance up
ErrorListener(calls, instance, e) ==
    IF instance.onError # "null" /\ instance.onError = "function"
    THEN Append(calls, [event |-> e, owner |-> instance.owner])
    ELSE calls

\* the vendor player i raises an ERROR event
VendorError(i) ==
    /\ i \in 1 .. Len(instances)
    /\ ~instances[i].destroyed
    /\ Len(errorEvents) < MaxErrors
    /\ errorEvents' = Append(errorEvents, instances[i].owner)
    /\ onErrorCalls' = ErrorListener(onErrorCalls, instances[i],
                                     Len(errorEvents) + 1)
    /\ UNCHANGED <<scriptLoadedGlobally, appended, pendingScripts, instances,
                   mounted, playerInstance, config, entryId, cleanupInst,
                   configChanges, serviceUrl>>
    /\ UNCHANGED <<isPlaying, seekToProp, onError, startInAutoPlay,
                   consoleErrors, handleCalls>>
    /\ UNCHANGED <<hoverVars, searchVars>>

\* playKalturaPlayer(seekTo) of the handle of a render whose playerInstance
\* is inst (the handle is re-created by every render)
playKalturaPlayer(insts, inst, t) ==
    IF inst # NullInst
    THEN [insts EXCEPT ![inst].currentTime = IF t # NoSeek THEN t ELSE @,
                       ![inst].lastCmd = "play"]
    ELSE insts

\* pauseKalturaPlayer() of the same handle
pauseKalturaPlayer(insts, inst) ==
    IF inst # NullInst
    THEN [insts EXCEPT ![inst].lastCmd = "pause"]
    ELSE insts

\* the parent calls ref.current.playKalturaPlayer(t)
HandlePlay(p, t) ==
    /\ mounted[p] = "mounted"
    /\ handleCalls < MaxPlayerCalls
    /\ handleCalls' = handleCalls + 1
    /\ instances' = playKalturaPlayer(instances, playerInstance[p], t)
    /\ UNCHANGED <<scriptLoadedGlobally, appended, pendingScripts, mounted,
                   playerInstance, config, entryId, cleanupInst,
                   configChanges, serviceUrl>>
    /\ UNCHANGED <<isPlaying, seekToProp, onError, startInAutoPlay,
                   consoleErrors, errorEvents, onErrorCalls>>
    /\ UNCHANGED <<hoverVars, searchVars>>

\* the parent calls ref.current.pauseKalturaPlayer()
HandlePause(p) ==
    /\ mounted[p] = "mounted"
    /\ handleCalls < MaxPlayerCalls
    /\ handleCalls' = handleCalls + 1
    /\ instances' = pauseKalturaPlayer(instances, playerInstance[p])
    /\ UNCHANGED <<scriptLoadedGlobally, appended, pendingScripts, mounted,
                   playerInstance, config, entryId, cleanupInst,
                   configChanges, serviceUrl>>
    /\ UNCHANGED <<isPlaying, seekToProp, onError, startInAutoPlay,
                   consoleErrors, errorEvents, onErrorCalls>>
    /\ UNCHANGED <<hoverVars, searchVars>>

\* a page with one Player; the other adapters are not on the page
OnePlayerPage ==
    /\ scriptLoadedGlobally = FALSE
    /\ appended = <<>>
    /\ pendingScripts = <<>>
    /\ instances = <<>>
    /\ mounted = [p \in Adapters |-> IF p = 1 THEN "never" ELSE "absent"]
    /\ playerInstance = [p \in Adapters |-> NullInst]
    /\ config = [p \in Adapters |-> "conf1"]
    /\ entryId = [p \in Adapters |-> "e1"]
    /\ cleanupInst = [p \in Adapters |-> NullInst]
    /\ configChanges = 0
    /\ serviceUrl = ""
    /\ seekToProp = [p \in Adapters |-> NoSeek]
    /\ startInAutoPlay = FALSE
    /\ consoleErrors = <<>>
    /\ errorEvents = <<>>
    /\ onErrorCalls = <<>>
    /\ handleCalls = 0

\* the Player is driven by its props alone, from either value of isPlaying
PropsDrivenPlayer ==
    /\ OnePlayerPage
    /\ \E b \in BOOLEAN : isPlaying = [p \in Adapters |-> b]
    /\ onError = [p \in Adapters |-> "null"]

\* the Player is driven through its handle, with any kind of onError
HandleDrivenPlayer ==
    /\ OnePlayerPage
    /\ isPlaying = [p \in Adapters |-> FALSE]
    /\ \E f \in OnErrors : onError = [p \in Adapters |-> f]

PlayerNext ==
    \/ \E p \in Adapters : Mount(p)
    \/ \E k \in 1 .. NumPlayers + MaxConfigChanges : ScriptOnload(k)
    \/ \E k \in 1 .. NumPlayers + MaxConfigChanges : ScriptOnerror(k)
    \/ \E p \in Adapters, cfg \in Configs : SetConfig(p, cfg)
    \/ \E p \in Adapters, e \in EntryIds : SetEntryId(p, e)
    \/ \E p \in Adapters : Unmount(p)

\* one Player driven by its props
StandaloneNext ==
    \/ \E p \in Adapters : Mount(p)
    \/ \E k \in 1 .. NumPlayers + MaxConfigChanges : ScriptOnload(k)
    \/ \E k \in 1 .. NumPlayers + MaxConfigChanges : ScriptOnerror(k)
    \/ \E p \in Adapters, cfg \in Configs : SetConfig(p, cfg)
    \/ \E p \in Adapters, e \in EntryIds : SetEntryId(p, e)
    \/ \E p \in Adapters, b \in BOOLEAN : SetIsPlaying(p, b)
    \/ \E p \in Adapters, t \in SeekTos : SetSeekTo(p, t)
    \/ \E p \in Adapters : Unmount(p)

\* one Player driven through its handle, with script failures and vendor
\* errors
FaultsNext ==
    \/ \E p \in Adapters : Mount(p)
    \/ \E k \in 1 .. NumPlayers + MaxConfigChanges : ScriptOnload(k)
    \/ \E k \in 1 .. NumPlayers + MaxConfigChanges : ScriptOnerror(k)
    \/ \E p \in Adapters, cfg \in Configs : SetConfig(p, cfg)
    \/ \E i \in 1 .. NumPlayers + MaxConfigChanges : VendorError(i)
    \/ \E p \in Adapters, t \in SeekTos : HandlePlay(p, t)
    \/ \E p \in Adapters : HandlePause(p)
    \/ \E p \in Adapters : Unmount(p)

\* ================================================ EmbeddedKalturaSearchView.js
\* longest text typed into the input box
MaxQueryLen == 2
\* number of fetches awaiting their response
MaxInflight == 2
\* longest data.ref of a response
MaxRefs == 1

Chars == {" ", "a"}

\* the strings of at most MaxQueryLen characters
Queries == UNION {[1 .. n -> Chars] : n \in 0 .. MaxQueryLen}

\* String.prototype.trim()
RECURSIVE TrimStart(_)
TrimStart(q) ==
    IF q # <<>> /\ Head(q) = " " THEN TrimStart(Tail(q)) ELSE q

RECURSIVE TrimEnd(_)
TrimEnd(q) ==
    IF q # <<>> /\ q[Len(q)] = " " THEN TrimEnd(SubSeq(q, 1, Len(q) - 1)) ELSE q

Trim(q) == TrimEnd(TrimStart(q))

\* data = null
NullData == [null |-> TRUE, query |-> <<>>, refs |-> <<>>]

\* the parsed body of the response to the request for query q, after the
\* map over data.ref: n entries in the order of the response, each one
\* marked with the response it came in
ResponseData(q, n) ==
    [null |-> FALSE, query |-> q,
     refs |-> [k \in 1 .. n |-> [query |-> q, pos |-> k, entry_id |-> "e"]]]

\* the items PlayersGallery renders for data: data.ref.filter(entry_id set)
GalleryItems(d) == SelectSeq(d.refs, LAMBDA r : r.entry_id # "")

\* the sentence rows SearchResultsWithGallery renders: (data?.ref || []).map
SentenceRows(d) == d.refs

SearchState ==
    [searchQuery |-> searchQuery, lastSearchQuery |-> lastSearchQuery,
     isSearching |-> isSearching, data |-> data, isLoading |-> isLoading,
     error |-> error, isFetched |-> isFetched, inflight |-> inflight]

\* fetchResults that keeps the previous result while the request is out
fetchResultsKeepData(ss) ==
    [ss EXCEPT !.isLoading = TRUE,
               !.inflight = Append(@, ss.lastSearchQuery)]

\* fetchResults() of a render whose props.searchQuery is ss.lastSearchQuery
fetchResults(ss) ==
    [ss EXCEPT !.data = NullData, !.isLoading = TRUE,
               !.inflight = Append(@, ss.lastSearchQuery)]

\* the fetch effect without its test of props.isSearching
SearchEffectsAnyChange(ss, old) ==
    LET fetchDeps == <<ss.isSearching, ss.lastSearchQuery>>
                         # <<old.isSearching, old.lastSearchQuery>>
        s1 == IF fetchDeps
              THEN fetchResults([ss EXCEPT !.isFetched = FALSE])
              ELSE ss
    IN  IF ss.lastSearchQuery # old.lastSearchQuery /\ ss.lastSearchQuery # <<>>
        THEN [s1 EXCEPT !.isSearching = TRUE]
        ELSE s1

\* the effects of one commit, child first: the fetch effect of
\* SearchResultsWithGallery (dependencies isSearching, searchQuery) and the
\* effect of EmbeddedKalturaSearchView (dependency lastSearchQuery); old is
\* the previous commit
SearchEffects(ss, old) ==
    LET fetchDeps == <<ss.isSearching, ss.lastSearchQuery>>
                         # <<old.isSearching, old.lastSearchQuery>>
        s1 == IF fetchDeps /\ ss.isSearching
              THEN fetchResults([ss EXCEPT !.isFetched = FALSE])
              ELSE ss
    IN  IF ss.lastSearchQuery # old.lastSearchQuery /\ ss.lastSearchQuery # <<>>
        THEN [s1 EXCEPT !.isSearching = TRUE]
        ELSE s1

\* render after the state updates ss and run the effects until no effect
\* sets state again
SearchRender(ss, old) ==
    LET s1 == SearchEffects(ss, old)
    IN  IF s1.isSearching # ss.isSearching
        THEN SearchEffects(s1, ss)
        ELSE s1

SearchCommit(ss) ==
    /\ searchQuery' = ss.searchQuery
    /\ lastSearchQuery' = ss.lastSearchQuery
    /\ isSearching' = ss.isSearching
    /\ data' = ss.data
    /\ isLoading' = ss.isLoading
    /\ error' = ss.error
    /\ isFetched' = ss.isFetched
    /\ inflight' = ss.inflight

\* a render that tests data before error
ViewDataFirst ==
    IF isLoading THEN "Loading"
    ELSE IF ~data.null THEN "Loaded"
    ELSE IF error THEN "Errored"
    ELSE "Empty"

\* a render that takes a result without references for no result
ViewNoRefsIsEmpty ==
    IF isLoading THEN "Loading"
    ELSE IF error THEN "Errored"
    ELSE IF data.null \/ data.refs = <<>> THEN "Empty"
    ELSE "Loaded"

\* what SearchResultsWithGallery renders
View ==
    IF isLoading THEN "Loading"
    ELSE IF error THEN "Errored"
    ELSE IF data.null THEN "Empty"
    ELSE "Loaded"

\* the step kind started from the current view and left ss; outstanding
\* is the number of requests that were in flight and stay so
SearchObserve(kind, outstanding, ss) ==
    searchOp' = [kind |-> kind, from |-> View,
                 issued |-> Len(ss.inflight) - outstanding]

\* the search view after its first render
SearchMounted ==
    /\ searchQuery = <<>>
    /\ lastSearchQuery = <<>>
    /\ isSearching = FALSE
    /\ data = NullData
    /\ isLoading = FALSE
    /\ error = FALSE
    /\ isFetched = FALSE
    /\ inflight = <<>>
    /\ searchOp = [kind |-> "init", from |-> "Empty", issued |-> 0]

\* no search view is on the page
SearchAbsent == SearchMounted

\* handleInputChange
InputChange(q) ==
    /\ q # searchQuery
    /\ LET ss == SearchRender([SearchState EXCEPT !.searchQuery = q],
                              SearchState)
       IN  SearchCommit(ss) /\ SearchObserve("input", Len(inflight), ss)
    /\ UNCHANGED <<hoverVars, playerVars>>

\* a handleSearchClick that does not compare the text with lastSearchQuery
SearchClickAnyText ==
    /\ IF Trim(searchQuery) # <<>>
       THEN /\ Len(inflight) < MaxInflight
            /\ LET ss == SearchRender(
                            [SearchState EXCEPT !.isSearching = TRUE,
                                                !.lastSearchQuery = searchQuery],
                            SearchState)
               IN  SearchCommit(ss) /\ SearchObserve("commit", Len(inflight), ss)
       ELSE /\ SearchCommit(SearchState)
            /\ SearchObserve("noCommit", Len(inflight), SearchState)
    /\ UNCHANGED <<hoverVars, playerVars>>

\* handleSearchClick, also reached from handleKeyDown on Enter
SearchClick ==
    /\ IF Trim(searchQuery) # <<>> /\ searchQuery # lastSearchQuery
       THEN /\ Len(inflight) < MaxInflight
            /\ LET ss == SearchRender(
                            [SearchState EXCEPT !.isSearching = TRUE,
                                                !.lastSearchQuery = searchQuery],
                            SearchState)
               IN  SearchCommit(ss) /\ SearchObserve("commit", Len(inflight), ss)
       ELSE /\ SearchCommit(SearchState)
            /\ SearchObserve("noCommit", Len(inflight), SearchState)
    /\ UNCHANGED <<hoverVars, playerVars>>

\* the fetch issued k-th among the outstanding ones resolves with an OK
\* response whose body has n references
FetchResolved(k, n) ==
    /\ k \in 1 .. Len(inflight)
    /\ LET ss == SearchRender(
                    [SearchState EXCEPT !.data = ResponseData(inflight[k], n),
                                        !.isLoading = FALSE,
                                        !.error = FALSE,
                                        !.isFetched = TRUE,
                                        !.isSearching = FALSE,
                                        !.inflight = RemoveAt(@, k)],
                    SearchState)
       IN  SearchCommit(ss) /\ SearchObserve("resolved", Len(inflight) - 1, ss)
    /\ UNCHANGED <<hoverVars, playerVars>>

\* a failure handler that does not call props.setIsSearching(false)
FetchRejectedKeepsSearching(k) ==
    /\ k \in 1 .. Len(inflight)
    /\ LET ss == SearchRender(
                    [SearchState EXCEPT !.error = TRUE,
                                        !.isLoading = FALSE,
                                        !.inflight = RemoveAt(@, k)],
                    SearchState)
       IN  SearchCommit(ss) /\ SearchObserve("rejected", Len(inflight) - 1, ss)
    /\ UNCHANGED <<hoverVars, playerVars>>

\* the fetch issued k-th among the outstanding ones fails: network failure
\* or a response that is not OK
FetchRejected(k) ==
    /\ k \in 1 .. Len(inflight)
    /\ LET ss == SearchRender(
                    [SearchState EXCEPT !.error = TRUE,
                                        !.isLoading = FALSE,
                                        !.isSearching = FALSE,
                                        !.inflight = RemoveAt(@, k)],
                    SearchState)
       IN  SearchCommit(ss) /\ SearchObserve("rejected", Len(inflight) - 1, ss)
    /\ UNCHANGED <<hoverVars, playerVars>>

SearchNext ==
    \/ \E q \in Queries : InputChange(q)
    \/ SearchClick
    \/ \E k \in 1 .. MaxInflight, n \in 0 .. MaxRefs : FetchResolved(k, n)
    \/ \E k \in 1 .. MaxInflight : FetchRejected(k)


\* the oldest outstanding request is answered, with a result or a failure
OldestFetchCompletes ==
    \/ \E n \in 0 .. MaxRefs : FetchResolved(1, n)
    \/ FetchRejected(1)


\* ------------------------------------------------------------- data.ref
Idx == 0 .. (NumEntries - 1)

\* an identifier generator that gives every entry the same identifier
UuidConstant(i) == "id0"

\* ref.uniqueGuiId = uuidv4(): one fresh identifier per entry of the response
Uuid(i) == "id" \o ToString(i)

Uids == { Uuid(i) : i \in Idx }

\* data.ref[i] (JS index, from 0); undefined is modelled by InRef(i) being false
InRef(i) == i \in Idx

RefAt(i) == dataRef[i + 1]

\* data.ref.findIndex((ref) => ref.uniqueGuiId === uniqueGuiId)
FindIndex(uniqueGuiId) ==
    IF \E i \in Idx : RefAt(i).uniqueGuiId = uniqueGuiId
    THEN CHOOSE i \in Idx :
            /\ RefAt(i).uniqueGuiId = uniqueGuiId
            /\ \A j \in Idx : RefAt(j).uniqueGuiId = uniqueGuiId => i <= j
    ELSE NullIndex

\* the gallery renders data.ref.filter(entry_id !== null && entry_id !== "")
Rendered(i) == InRef(i) /\ RefAt(i).entry_id # ""

\* position of entry i in the filtered list (the data-index attribute)
FilteredIndex(i) == Cardinality({ j \in Idx : j < i /\ Rendered(j) })

\* the keys of playerRefs (and of containerRefs) after the refs effect:
\* data.ref.reduce((acc, ref) => { acc[ref.uniqueGuiId] = createRef() }, {})
\* keeps one ref per identifier
RefKeys == { RefAt(i).uniqueGuiId : i \in Idx }

\* the entries whose Player is rendered with ref={playerRefs[uniqueGuiId]}
AttachedTo(uniqueGuiId) ==
    { i \in Idx : Rendered(i) /\ RefAt(i).uniqueGuiId = uniqueGuiId }

\* ------------------------------------------------------------ step record
\* A handler or timer callback is run on a record st of the state it may
\* write (the pending state updates, the timers, the vendor players) plus
\* a log of what it issued; c is the render it closes over.
Ev(ev, uid, n, via) == [ev |-> ev, uid |-> uid, n |-> n, via |-> via]

CurrentState ==
    [timers |-> timers, highlightedIndex |-> highlightedIndex,
     hoverTimerId |-> hoverTimerId, isHovering |-> isHovering,
     hoverVideoId |-> hoverVideoId, playingUniqueGuiId |-> playingUniqueGuiId,
     mouseLeaveTimeout |-> mouseLeaveTimeout, vstate |-> vstate, log |-> <<>>]

\* the state values of the last committed render
CommittedRender ==
    [highlightedIndex |-> highlightedIndex, hoverTimerId |-> hoverTimerId,
     mouseLeaveTimeout |-> mouseLeaveTimeout,
     playingUniqueGuiId |-> handlePlaying]

\* ------------------------------------------------------------- timers
TimerIds(ts) == { ts[k].id : k \in 1 .. Len(ts) }

\* setTimeout returns an id no live reference holds (browsers never reuse one)
NewTimerId(st, c) ==
    LET used == TimerIds(st.timers)
                \cup {st.mouseLeaveTimeout, st.hoverTimerId,
                      c.mouseLeaveTimeout, c.hoverTimerId}
    IN  CHOOSE n \in 1 .. (Cardinality(used) + 1) :
            /\ n \notin used
            /\ \A m \in 1 .. (Cardinality(used) + 1) : m \notin used => n <= m

\* clearTimeout(id): no effect when id is null or has fired or been cleared
ClearTimeout(ts, id) == SelectSeq(ts, LAMBDA t : t.id # id)

Timer(id, kind, uid, index, refsReady, playing) ==
    [id |-> id, kind |-> kind, uid |-> uid, index |-> index,
     refsReady |-> refsReady, playing |-> playing]

\* ------------------------------------------------------------- Player.js
\* playKalturaPlayer that plays before it seeks
PlayKalturaPlayerPlayFirst(st, uid, seekTo) ==
    IF instLive
    THEN [st EXCEPT
            !.vstate[uid] = "playing",
            !.log = @ \o <<Ev("play", uid, NoSeek, "player")>>
                      \o (IF seekTo # NoSeek
                          THEN <<Ev("seek", uid, seekTo, "player")>>
                          ELSE <<>>)]
    ELSE st

\* playKalturaPlayer(seekTo) of the Player's imperative handle
PlayKalturaPlayer(st, uid, seekTo) ==
    IF instLive
    THEN [st EXCEPT
            !.vstate[uid] = "playing",
            !.log = @ \o (IF seekTo # NoSeek
                          THEN <<Ev("seek", uid, seekTo, "player")>>
                          ELSE <<>>)
                      \o <<Ev("play", uid, NoSeek, "player")>>]
    ELSE st

\* pauseKalturaPlayer() of the Player's imperative handle
PauseKalturaPlayer(st, uid) ==
    IF instLive
    THEN [st EXCEPT !.vstate[uid] = "paused",
                    !.log = @ \o <<Ev("pause", uid, NoSeek, "player")>>]
    ELSE st

\* ------------------------------------------------------ PlayersGallery.js
\* playerRefs[uniqueGuiId] && playerRefs[uniqueGuiId].current, for the
\* playerRefs of a closure: {} in the first render, one ref per entry of
\* data.ref afterwards, attached where the gallery renders a Player
HasPlayerRef(refsReady, uid) ==
    refsReady /\ uid \in Uids /\ Rendered(FindIndex(uid))

\* containerRefs[uniqueGuiId] && containerRefs[uniqueGuiId].current
HasContainerRef(refsReady, uid) ==
    refsReady /\ uid \in Uids /\ Rendered(FindIndex(uid))

\* playKalturaPlayerByUniqueId that records the identifier without
\* resolving its handle
PlayByIdUnguarded(st, refsReady, uid, seekTime, via) ==
    [st EXCEPT !.log = @ \o <<Ev("playById", uid, seekTime, via)>>,
               !.playingUniqueGuiId = uid]

\* playKalturaPlayerByUniqueId that pauses every other player first
PlayByIdExclusive(st, refsReady, uid, seekTime, via) ==
    [st EXCEPT !.log = @ \o <<Ev("playById", uid, seekTime, via)>>
                         \o <<Ev("pause", "", NoSeek, "player")>>
                         \o <<Ev("play", uid, NoSeek, "player")>>,
               !.vstate = [u \in Uids |-> IF u = uid THEN "playing" ELSE "paused"],
               !.playingUniqueGuiId = uid]

\* playKalturaPlayerByUniqueId(uniqueGuiId, seekTime) of the closure whose
\* playerRefs are refsReady; via names the caller for the log
PlayById(st, refsReady, uid, seekTime, via) ==
    LET s0 == [st EXCEPT !.log = @ \o <<Ev("playById", uid, seekTime, via)>>]
    IN  IF HasPlayerRef(refsReady, uid)
        THEN LET s1 == PlayKalturaPlayer(s0, uid, seekTime)
                 s2 == [s1 EXCEPT !.playingUniqueGuiId = uid]
             IN  IF HasContainerRef(refsReady, uid)
                 THEN [s2 EXCEPT !.log = @ \o <<Ev("scroll", uid, NoSeek, via)>>]
                 ELSE s2
        ELSE s0

\* pauseKalturaPlayerByUniqueId(uniqueGuiId) of the closure whose playerRefs
\* are refsReady and whose playingUniqueGuiId is playing
PauseById(st, refsReady, playing, uid, via) ==
    LET s0 == [st EXCEPT !.log = @ \o <<Ev("pauseById", uid, NoSeek, via)>>]
    IN  IF HasPlayerRef(refsReady, uid)
        THEN LET s1 == PauseKalturaPlayer(s0, uid)
             IN  IF playing = uid
                 THEN [s1 EXCEPT !.playingUniqueGuiId = NullId]
                 ELSE s1
        ELSE s0

\* handleMouseEnter reporting the item's data-index attribute (its position
\* among the rendered items) instead of its position in data.ref
handleMouseEnterDataIndex(st, c, uid) ==
    LET index == FilteredIndex(FindIndex(uid))
        s1 == IF c.mouseLeaveTimeout # NullTimer
              THEN [st EXCEPT !.timers = ClearTimeout(@, c.mouseLeaveTimeout)]
              ELSE st
        id == NewTimerId(s1, c)
    IN  [s1 EXCEPT
            !.timers = Append(@, Timer(id, "galleryEnter", uid, index,
                                       cbRefsReady, cbPlaying)),
            !.mouseLeaveTimeout = id]

\* handleMouseEnter(event), event.currentTarget.dataset.uniqueguiid = uid
handleMouseEnter(st, c, uid) ==
    LET index == FindIndex(uid)
        s1 == IF c.mouseLeaveTimeout # NullTimer
              THEN [st EXCEPT !.timers = ClearTimeout(@, c.mouseLeaveTimeout)]
              ELSE st
        id == NewTimerId(s1, c)
    IN  [s1 EXCEPT
            !.timers = Append(@, Timer(id, "galleryEnter", uid, index,
                                       cbRefsReady, cbPlaying)),
            !.mouseLeaveTimeout = id]

\* handleMouseLeave(event)
handleMouseLeave(st, c, uid) ==
    LET s1 == IF c.mouseLeaveTimeout # NullTimer
              THEN [st EXCEPT !.timers = ClearTimeout(@, c.mouseLeaveTimeout)]
              ELSE st
        id == NewTimerId(s1, c)
    IN  [s1 EXCEPT
            !.timers = Append(@, Timer(id, "galleryLeave", uid, NullIndex,
                                       cbRefsReady, cbPlaying)),
            !.mouseLeaveTimeout = id]

\* ------------------------------------------- SearchResultsWithGallery
\* highlightSentence that highlights without playing
highlightSentenceOnly(st, index) ==
    [st EXCEPT !.highlightedIndex = index]

\* highlightSentence(index); videoListRef.current is the gallery's handle,
\* re-created by every render of the gallery
highlightSentence(st, index) ==
    LET s1 == [st EXCEPT !.highlightedIndex = index]
    IN  IF InRef(index)
        THEN PlayById(s1, TRUE, RefAt(index).uniqueGuiId, RefAt(index).time,
                      "handle")
        ELSE s1

\* removeHighlight()
removeHighlight(st, c) ==
    LET s1 == IF c.highlightedIndex # NullIndex /\ InRef(c.highlightedIndex)
              THEN PauseById(st, TRUE, c.playingUniqueGuiId,
                             RefAt(c.highlightedIndex).uniqueGuiId, "handle")
              ELSE st
    IN  [s1 EXCEPT !.highlightedIndex = NullIndex]

\* onMouseEnter(index) of a sentence row
onMouseEnter(st, c, index) ==
    LET id == NewTimerId(st, c)
    IN  [st EXCEPT
            !.timers = Append(@, Timer(id, "sentenceEnter", "", index,
                                       TRUE, NullId)),
            !.hoverTimerId = id]

\* onMouseLeave() of a sentence row
onMouseLeave(st, c) ==
    LET s1 == [st EXCEPT !.timers = ClearTimeout(@, c.hoverTimerId),
                         !.hoverTimerId = NullTimer,
                         !.isHovering = FALSE]
    IN  IF c.highlightedIndex # NullIndex THEN removeHighlight(s1, c) ELSE s1

\* ------------------------------------------------------ timer callbacks
\* the callback handleMouseEnter passes to setTimeout
GalleryEnterTimer(st, t) ==
    LET s1 == IF shouldPlayOnHover
              THEN PlayById(st, t.refsReady, t.uid, NoSeek, "gallery")
              ELSE st
        s2 == [s1 EXCEPT !.hoverVideoId = t.index,
                         !.log = @ \o <<Ev("onHover", t.uid, t.index, "gallery")>>]
    IN  highlightSentence(s2, t.index)

\* the callback handleMouseLeave passes to setTimeout
GalleryLeaveTimer(st, t) ==
    LET s1 == IF shouldPlayOnHover
              THEN PauseById(st, t.refsReady, t.playing, t.uid, "gallery")
              ELSE st
    IN  [s1 EXCEPT !.hoverVideoId = NullIndex]

\* the callback onMouseEnter passes to setTimeout
SentenceEnterTimer(st, t) ==
    highlightSentence([st EXCEPT !.isHovering = TRUE], t.index)

RunTimer(st, t) ==
    CASE t.kind = "galleryEnter" -> GalleryEnterTimer(st, t)
      [] t.kind = "galleryLeave" -> GalleryLeaveTimer(st, t)
      [] t.kind = "sentenceEnter" -> SentenceEnterTimer(st, t)

\* ------------------------------------------------------- pointer moves
Pos(el, i) == [el |-> el, i |-> i]

\* the elements that carry hover listeners: the gallery item container and
\* the Player's div inside it (both get handleMouseEnter/handleMouseLeave),
\* and the sentence rows
Positions ==
    {Pos("out", NullIndex)}
    \cup { Pos("container", i) : i \in { j \in Idx : Rendered(j) } }
    \cup { Pos("player", i) : i \in { j \in Idx : Rendered(j) } }
    \cup { Pos("sentence", i) : i \in Idx }

Call(h, i) == [h |-> h, i |-> i]

\* the leave listeners React runs when the pointer goes from p to q, from
\* the innermost element outwards
Leaves(p, q) ==
    CASE p.el = "player" ->
            IF q = Pos("container", p.i)
            THEN <<Call("galleryLeave", p.i)>>
            ELSE <<Call("galleryLeave", p.i), Call("galleryLeave", p.i)>>
      [] p.el = "container" ->
            IF q = Pos("player", p.i) THEN <<>>
            ELSE <<Call("galleryLeave", p.i)>>
      [] p.el = "sentence" -> <<Call("sentenceLeave", p.i)>>
      [] OTHER -> <<>>

\* the enter listeners of the same move, from the outermost element inwards
Enters(p, q) ==
    CASE q.el = "player" ->
            IF p = Pos("container", q.i)
            THEN <<Call("galleryEnter", q.i)>>
            ELSE <<Call("galleryEnter", q.i), Call("galleryEnter", q.i)>>
      [] q.el = "container" ->
            IF p = Pos("player", q.i) THEN <<>>
            ELSE <<Call("galleryEnter", q.i)>>
      [] q.el = "sentence" -> <<Call("sentenceEnter", q.i)>>
      [] OTHER -> <<>>

RunCall(st, c, call) ==
    CASE call.h = "galleryEnter" ->
            handleMouseEnter(st, c, RefAt(call.i).uniqueGuiId)
      [] call.h = "galleryLeave" ->
            handleMouseLeave(st, c, RefAt(call.i).uniqueGuiId)
      [] call.h = "sentenceEnter" -> onMouseEnter(st, c, call.i)
      [] call.h = "sentenceLeave" -> onMouseLeave(st, c)

\* all the listeners of one native event run against the same render c
RECURSIVE RunCalls(_, _, _)
RunCalls(st, c, calls) ==
    IF calls = <<>> THEN st
    ELSE RunCalls(RunCall(st, c, Head(calls)), c, Tail(calls))

\* ------------------------------------------------------------ observation

VendorCmds(log) ==
    { [ev |-> log[k].ev, uid |-> log[k].uid] :
        k \in { n \in 1 .. Len(log) : log[n].ev \in {"play", "pause"} } }

\* phase follows the run from the initial Idle state: "rapid" while only
\* pointer moves have happened (every move comes before any pending timer
\* has fired, i.e. within the debounce delay of the one before), "settled"
\* once timers fire with the pointer at rest, "void" afterwards
Observe(kind, t, st, isActiveCommit) ==
    LET ph == IF kind = "move"
              THEN (IF phase = "rapid" THEN "rapid" ELSE "void")
              ELSE (IF phase = "void" THEN "void" ELSE "settled")
    IN  /\ lastOp' = [kind |-> kind, uid |-> t.uid, index |-> t.index,
                      log |-> st.log]
        /\ phase' = ph
        /\ moves' = IF kind = "move" THEN moves + 1 ELSE moves
        /\ issued' = IF ph = "void" THEN {} ELSE issued \cup VendorCmds(st.log)
        /\ commits' = IF ph = "void" THEN {}
                      ELSE IF isActiveCommit THEN commits \cup {t.index}
                      ELSE commits

\* ----------------------------------------------------------------- render
\* the state updates are applied and the components re-render: the
\* imperative handle is re-created (useImperativeHandle without dependencies)
\* and useCallback re-creates the hover callbacks when mouseLeaveTimeout
\* changed (data.ref and shouldPlayOnHover do not change while mounted)
Commit(st) ==
    /\ timers' = st.timers
    /\ highlightedIndex' = st.highlightedIndex
    /\ hoverTimerId' = st.hoverTimerId
    /\ isHovering' = st.isHovering
    /\ hoverVideoId' = st.hoverVideoId
    /\ playingUniqueGuiId' = st.playingUniqueGuiId
    /\ mouseLeaveTimeout' = st.mouseLeaveTimeout
    /\ vstate' = st.vstate
    /\ handlePlaying' = st.playingUniqueGuiId
    /\ IF st.mouseLeaveTimeout # mouseLeaveTimeout
       THEN cbRefsReady' = TRUE /\ cbPlaying' = st.playingUniqueGuiId
       ELSE UNCHANGED <<cbRefsReady, cbPlaying>>

NoTimer == Timer(NullTimer, "none", "", NullIndex, FALSE, NullId)

\* --------------------------------------------------------- hover actions
\* the search result is Loaded and the gallery has rendered with its refs
\* (first render, refs effect, second render); nothing is hovered
GalleryIdle ==
    /\ pointer = Pos("out", NullIndex)
    /\ timers = <<>>
    /\ highlightedIndex = NullIndex
    /\ hoverTimerId = NullTimer
    /\ isHovering = FALSE
    /\ hoverVideoId = NullIndex
    /\ playingUniqueGuiId = NullId
    /\ mouseLeaveTimeout = NullTimer
    /\ handlePlaying = NullId
    /\ cbRefsReady = FALSE
    /\ cbPlaying = NullId
    /\ vstate = [u \in Uids |-> "paused"]
    /\ lastOp = [kind |-> "init", uid |-> "", index |-> NullIndex, log |-> <<>>]
    /\ phase = "rapid"
    /\ moves = 0
    /\ issued = {}
    /\ commits = {}

\* a response of the search API after fetchResults gave every entry its
\* uniqueGuiId; entry_id may be empty
GalleryMounted ==
    /\ dataRef \in
         { [k \in 1 .. NumEntries |->
              [uniqueGuiId |-> Uuid(k - 1), entry_id |-> e[k], time |-> 10 * k]] :
           e \in [1 .. NumEntries -> {"", "e"}] }
    /\ shouldPlayOnHover \in BOOLEAN
    /\ instLive \in BOOLEAN
    /\ mountState = "mounted"
    /\ GalleryIdle

\* no search result is rendered
GalleryAbsent ==
    /\ dataRef = <<>>
    /\ shouldPlayOnHover = FALSE
    /\ instLive = FALSE
    /\ mountState = "unmounted"
    /\ GalleryIdle

HoverInit == GalleryMounted /\ PlayerAbsent /\ SearchAbsent

\* one native pointer event: the pointer goes from where it is to q
PointerMove(q) ==
    /\ mountState = "mounted"
    /\ q # pointer
    /\ moves < MaxMoves
    /\ LET st == RunCalls(CurrentState, CommittedRender,
                          Leaves(pointer, q) \o Enters(pointer, q))
       IN  /\ Len(st.timers) <= MaxTimers
           /\ pointer' = q
           /\ Commit(st)
           /\ Observe("move", NoTimer, st, FALSE)
    /\ UNCHANGED <<dataRef, shouldPlayOnHover, instLive, mountState>>
    /\ UNCHANGED <<playerVars, searchVars>>

\* the oldest pending timer fires (all delays are MOUSE_LEAVE_DELAY)
TimerFire ==
    /\ mountState = "mounted"
    /\ timers # <<>>
    /\ LET t == Head(timers)
           st == RunTimer([CurrentState EXCEPT !.timers = Tail(timers)], t)
       IN  /\ Commit(st)
           /\ Observe(t.kind, t, st,
                      t.kind \in {"galleryEnter", "sentenceEnter"}
                        /\ hoverVideoId # t.index)
    /\ UNCHANGED <<dataRef, shouldPlayOnHover, instLive, pointer, mountState>>
    /\ UNCHANGED <<playerVars, searchVars>>

\* the mouseLeaveTimeout the cleanup of the [data.ref] effect closes over:
\* that of the first render, the only one in which the effect ran
EffectMouseLeaveTimeout == NullTimer

\* PlayersGallery and the sentence list unmount: with what = "galleryUnmounted"
\* a new search makes SearchResultsWithGallery render its Loading message
\* instead of them, with what = "unmounted" the whole view is removed. The
\* cleanup of the gallery's effect runs; SearchResultsWithGallery has no
\* cleanup for hoverTimerId.
GalleryUnmount(what) ==
    /\ mountState = "mounted"
    /\ mountState' = what
    /\ timers' = IF EffectMouseLeaveTimeout # NullTimer
                 THEN ClearTimeout(timers, EffectMouseLeaveTimeout)
                 ELSE timers
    /\ pointer' = Pos("out", NullIndex)
    /\ lastOp' = [kind |-> "unmount", uid |-> "", index |-> NullIndex,
                  log |-> <<>>]
    /\ phase' = "void"
    /\ issued' = {}
    /\ commits' = {}
    /\ UNCHANGED <<dataRef, shouldPlayOnHover, instLive, highlightedIndex,
                   hoverTimerId, isHovering, hoverVideoId, playingUniqueGuiId,
                   mouseLeaveTimeout, handlePlaying, cbRefsReady, cbPlaying,
                   vstate, moves>>
    /\ UNCHANGED <<playerVars, searchVars>>

\* a timer left pending by the unmount fires: the refs of the unmounted
\* gallery are detached (playerRefs[id].current and videoListRef.current are
\* null) and state setters of unmounted components do nothing; the enter
\* callbacks reach highlightSentence of the closure's render, whose data is
\* the old result, and it dereferences videoListRef.current
TimerFireUnmounted ==
    /\ mountState # "mounted"
    /\ timers # <<>>
    /\ LET t == Head(timers)
           enter == t.kind \in {"galleryEnter", "sentenceEnter"}
           parentLive == mountState = "galleryUnmounted"
       IN  /\ timers' = Tail(timers)
           /\ highlightedIndex' = IF enter /\ parentLive THEN t.index
                                  ELSE highlightedIndex
           /\ isHovering' = IF t.kind = "sentenceEnter" /\ parentLive THEN TRUE
                            ELSE isHovering
           /\ lastOp' = [kind |-> t.kind, uid |-> t.uid, index |-> t.index,
                         log |-> IF enter /\ InRef(t.index)
                                 THEN <<Ev("TypeError", t.uid, t.index, "handle")>>
                                 ELSE <<>>]
    /\ UNCHANGED <<dataRef, shouldPlayOnHover, instLive, pointer, hoverTimerId,
                   hoverVideoId, playingUniqueGuiId, mouseLeaveTimeout,
                   handlePlaying, cbRefsReady, cbPlaying, vstate, phase, moves,
                   issued, commits, mountState>>
    /\ UNCHANGED <<playerVars, searchVars>>

\* the answer to the new query arrives and SearchResultsWithGallery renders
\* the result: a new PlayersGallery mounts with fresh state and new Players
\* (first render, refs effect, second render), while the state of
\* SearchResultsWithGallery, which stayed mounted, is kept, fetchResults
\* having set data, isLoading, error and isFetched only. The answer comes
\* after the timers left by the unmount have fired (they run 100 ms).
ResultLoaded ==
    /\ mountState = "galleryUnmounted"
    /\ timers = <<>>
    /\ mountState' = "mounted"
    /\ dataRef' \in
         { [k \in 1 .. NumEntries |->
              [uniqueGuiId |-> Uuid(k - 1), entry_id |-> e[k], time |-> 10 * k]] :
           e \in [1 .. NumEntries -> {"", "e"}] }
    /\ hoverVideoId' = NullIndex
    /\ playingUniqueGuiId' = NullId
    /\ mouseLeaveTimeout' = NullTimer
    /\ handlePlaying' = NullId
    /\ cbRefsReady' = FALSE
    /\ cbPlaying' = NullId
    /\ vstate' = [u \in Uids |-> "paused"]
    /\ lastOp' = [kind |-> "loaded", uid |-> "", index |-> NullIndex,
                  log |-> <<>>]
    /\ UNCHANGED <<shouldPlayOnHover, instLive, pointer, timers,
                   highlightedIndex, hoverTimerId, isHovering, phase, moves,
                   issued, commits>>
    /\ UNCHANGED <<playerVars, searchVars>>

HoverNext == (\E q \in Positions : PointerMove(q)) \/ TimerFire

\* hovering, with the unmount of the gallery at any moment
UnmountNext ==
    \/ \E q \in Positions : PointerMove(q)
    \/ TimerFire
    \/ \E what \in {"galleryUnmounted", "unmounted"} : GalleryUnmount(what)
    \/ TimerFireUnmounted

SpecUnmount == HoverInit /\ [][UnmountNext]_vars

SpecHover == HoverInit /\ [][HoverNext]_vars

\* hovering over one result, a new search that replaces it, and hovering
\* over the new result
ReloadNext ==
    \/ \E q \in Positions : PointerMove(q)
    \/ TimerFire
    \/ GalleryUnmount("galleryUnmounted")
    \/ TimerFireUnmounted
    \/ ResultLoaded

SpecReload == HoverInit /\ [][ReloadNext]_vars

\* ------------------------------------------------------ registry actions
\* number of calls a caller makes on the gallery's handle in one event
MaxCalls == 2

UnknownId == "unknown"

\* a call on the imperative handle of PlayersGallery
HandleCall(op, uid, seekTime) == [op |-> op, uid |-> uid, seekTime |-> seekTime]

HandleCallSet ==
    { HandleCall("playById", u, t) : u \in Uids \cup {UnknownId}, t \in {NoSeek, 5} }
    \cup { HandleCall("pauseById", u, NoSeek) : u \in Uids \cup {UnknownId} }

RunHandleCall(st, playing, call) ==
    IF call.op = "playById"
    THEN PlayById(st, TRUE, call.uid, call.seekTime, "handle")
    ELSE PauseById(st, TRUE, playing, call.uid, "handle")

\* the calls made on the handle by the last event, in order
HandleLog(log) ==
    SelectSeq(log, LAMBDA e : e.ev \in {"playById", "pauseById"})

\* what the event of the parent that is running has issued so far
EventLog == IF lastOp.kind = "handle" THEN lastOp.log ELSE <<>>

\* the parent calls a function of the handle, as the first call of an event
\* or after the other calls of the running event: every call of an event
\* goes to the handle of the committed render, whose functions close over
\* that render's playingUniqueGuiId
CallHandle(call) ==
    /\ Len(HandleLog(EventLog)) < MaxCalls
    /\ LET st == RunHandleCall([CurrentState EXCEPT !.log = EventLog],
                               handlePlaying, call)
       IN  /\ playingUniqueGuiId' = st.playingUniqueGuiId
           /\ vstate' = st.vstate
           /\ lastOp' = [kind |-> "handle", uid |-> "", index |-> NullIndex,
                         log |-> st.log]
    /\ UNCHANGED <<dataRef, shouldPlayOnHover, instLive, pointer, timers,
                   highlightedIndex, hoverTimerId, isHovering, hoverVideoId,
                   mouseLeaveTimeout, handlePlaying, cbRefsReady, cbPlaying,
                   phase, moves, issued, commits, mountState>>
    /\ UNCHANGED <<playerVars, searchVars>>

\* the event is over and the gallery re-renders
HandleEventEnd ==
    /\ lastOp.kind = "handle"
    /\ Commit(CurrentState)
    /\ lastOp' = [lastOp EXCEPT !.kind = "handled"]
    /\ UNCHANGED <<dataRef, shouldPlayOnHover, instLive, pointer, phase,
                   moves, issued, commits, mountState>>
    /\ UNCHANGED <<playerVars, searchVars>>

RegistryInit == GalleryMounted /\ PlayerAbsent /\ SearchAbsent

RegistryNext == (\E call \in HandleCallSet : CallHandle(call)) \/ HandleEventEnd

SpecRegistry == RegistryInit /\ [][RegistryNext]_vars

\* ------------------------------------------------------ player / search
PlayerInit == PlayerPageInit /\ GalleryAbsent /\ SearchAbsent

SpecPlayer == PlayerInit /\ [][PlayerNext]_vars

StandaloneInit == PropsDrivenPlayer /\ GalleryAbsent /\ SearchAbsent

SpecStandalone == StandaloneInit /\ [][StandaloneNext]_vars

FaultsInit == HandleDrivenPlayer /\ GalleryAbsent /\ SearchAbsent

SpecFaults == FaultsInit /\ [][FaultsNext]_vars

SearchInit == SearchMounted /\ GalleryAbsent /\ PlayerAbsent

SpecSearch == SearchInit /\ [][SearchNext]_vars

\* every request is answered in the end: no request stays the oldest
\* outstanding one for ever
SpecSearchLive == SearchInit /\ [][SearchNext]_vars /\ WF_vars(OldestFetchCompletes)

\* ------------------------------------------------------ claims: hover
Playing == { u \in Uids : vstate[u] = "playing" }

\* the position of the entry with identifier uid in data.ref
PositionOf(uid) == CHOOSE i \in Idx : dataRef[i + 1].uniqueGuiId = uid

LogEvents(log, ev) == { k \in 1 .. Len(log) : log[k].ev = ev }

\* C1: in the composed view with shouldPlayOnHover = true, after any
\* sequence of pointer events and timer firings at most one player is in
\* the playing state.
C1_AtMostOnePlaying ==
    shouldPlayOnHover => Cardinality(Playing) <= 1

\* C6: from Idle, a pointer-enter on an item followed by the pointer-leave
\* before any timer has fired issues no play and no pause command to any
\* player, and the highlight index stays unset.
C6_EnterThenLeaveIsSilent ==
    (phase # "void" /\ moves = 2 /\ pointer.el = "out")
        => /\ issued = {}
           /\ highlightedIndex = NullIndex
           /\ hoverVideoId = NullIndex

\* C7: when the timer of a pointer-leave on a gallery item fires with
\* play-on-hover enabled, the hovered entry is paused, the highlight index
\* is cleared and onHover is called with null, which clears the sentence
\* highlight as well.
C7_LeaveTimerNotifiesNull ==
    (lastOp.kind = "galleryLeave" /\ shouldPlayOnHover)
        => /\ \E k \in LogEvents(lastOp.log, "pauseById") :
                  lastOp.log[k].uid = lastOp.uid
           /\ hoverVideoId = NullIndex
           /\ \E k \in LogEvents(lastOp.log, "onHover") :
                  lastOp.log[k].n = NullIndex
           /\ highlightedIndex = NullIndex

C11_NoTimerAfterUnmount ==
    lastOp.kind \in {"galleryEnter", "galleryLeave", "sentenceEnter"}
        => mountState = "mounted"

\* C33: a sentence timer that fires after the gallery has unmounted raises no
\* exception and sends no command: highlightSentence does not call the
\* missing handle of the gallery.
C33_SentenceTimerSafeAfterUnmount ==
    (mountState # "mounted" /\ lastOp.kind = "sentenceEnter")
        => lastOp.log = <<>>

\* C34: when a new search result becomes Loaded no sentence is highlighted:
\* the index highlighted by the hovers on the previous result is not kept.
C34_NewResultNotHighlighted ==
    lastOp.kind = "loaded"
        => ~(highlightedIndex # NullIndex /\ InRef(highlightedIndex))

\* C16: a committed hover on sentence i and a committed hover on the gallery
\* item of entry i reach the same Active state: highlighted sentence index i
\* and current-playing identifier that of data.ref[i], whichever entries
\* of data.ref the gallery does not render.
C16_SameActiveState ==
    LET i == IF lastOp.kind = "galleryEnter" THEN PositionOf(lastOp.uid)
             ELSE lastOp.index
    IN  (lastOp.kind \in {"galleryEnter", "sentenceEnter"} /\ Rendered(i))
            => /\ highlightedIndex = i
               /\ playingUniqueGuiId = RefAt(i).uniqueGuiId
               /\ instLive => vstate[RefAt(i).uniqueGuiId] = "playing"

\* a hover was committed on the gallery item of entry 1 while entry 0 is
\* not rendered, without play-on-hover
C16_Witness ==
    /\ lastOp.kind = "galleryEnter"
    /\ lastOp.uid = Uuid(1)
    /\ ~Rendered(0)
    /\ ~shouldPlayOnHover
    /\ highlightedIndex = 1
    /\ playingUniqueGuiId = Uuid(1)

\* C9: with shouldPlayOnHover = false the timers started by pointer events
\* on gallery items send no play and no pause command to any player.
C9_NoCommandWithoutPlayOnHover ==
    (~shouldPlayOnHover /\ lastOp.kind \in {"galleryEnter", "galleryLeave"})
        => VendorCmds(lastOp.log) = {}

\* C10: after a sequence of pointer events that all came before any timer
\* fired, with the pointer at rest on an item, every play or pause command
\* went to that item and the only index committed Active is that item's.
C10_OnlySettledIndexCommits ==
    (phase = "settled" /\ pointer.el # "out")
        => /\ \A cmd \in issued : cmd.uid = RefAt(pointer.i).uniqueGuiId
           /\ commits \subseteq {pointer.i}

\* the pending timers started by the handlers of one coordinator
PendingOf(kinds) == { k \in 1 .. Len(timers) : timers[k].kind \in kinds }

\* C30: at any time at most one debounce timer of the gallery and at most
\* one of the sentence list is pending, also after two events were handled
\* before the component rendered again.
C30_OneTimerPerCoordinator ==
    /\ Cardinality(PendingOf({"galleryEnter", "galleryLeave"})) <= 1
    /\ Cardinality(PendingOf({"sentenceEnter"})) <= 1

\* --------------------------------------------------- claims: registry
\* C5: playKalturaPlayerByUniqueId(id) immediately followed by
\* pauseKalturaPlayerByUniqueId(id), for an id with a resolvable handle,
\* leaves the current-playing identifier null.
C5_PlayThenPauseClears ==
    LET calls == HandleLog(lastOp.log)
    IN  (/\ lastOp.kind \in {"handle", "handled"}
         /\ Len(calls) = 2
         /\ calls[1].ev = "playById"
         /\ calls[2].ev = "pauseById"
         /\ calls[1].uid = calls[2].uid
         /\ HasPlayerRef(TRUE, calls[1].uid))
            => playingUniqueGuiId = NullId

\* the last event made one call on the handle
SingleCall(op) ==
    /\ op.kind \in {"handle", "handled"}
    /\ Len(HandleLog(op.log)) = 1

TheCall(op) == HandleLog(op.log)[1]

\* the call the step has just made on the handle
LastCall(op) == HandleLog(op.log)[Len(HandleLog(op.log))]

\* what the step has just added to the log of the running event
Issued(before, after) == SubSeq(after, Len(before) + 1, Len(after))

\* C13: playKalturaPlayerByUniqueId or pauseKalturaPlayerByUniqueId with an
\* identifier that has no attached handle sends no command to any player,
\* requests no scroll and leaves the current-playing identifier unchanged.
C13_UnknownIdIsNoOp ==
    [][(lastOp'.kind = "handle" /\ ~HasPlayerRef(TRUE, LastCall(lastOp').uid))
          => /\ playingUniqueGuiId' = playingUniqueGuiId
             /\ vstate' = vstate
             /\ Len(Issued(EventLog, lastOp'.log)) = 1]_vars

\* an unresolvable identifier was played or paused while another entry was
\* the current-playing one and playing
C13_Witness ==
    /\ lastOp.kind = "handle"
    /\ ~HasPlayerRef(TRUE, LastCall(lastOp).uid)
    /\ playingUniqueGuiId # NullId
    /\ Playing # {}

\* C14: playById(B) makes B the current-playing identifier and the registry
\* sends no pause to any other entry: an entry A that was playing stays so.
C14_NoAutoPause ==
    [][(/\ lastOp'.kind = "handle"
        /\ LastCall(lastOp').ev = "playById"
        /\ HasPlayerRef(TRUE, LastCall(lastOp').uid))
          => /\ playingUniqueGuiId' = LastCall(lastOp').uid
             /\ LogEvents(Issued(EventLog, lastOp'.log), "pause") = {}
             /\ \A u \in Uids \ {LastCall(lastOp').uid} : vstate'[u] = vstate[u]]_vars

\* B was played after A: B is the current-playing identifier and A is
\* still playing
C14_Witness ==
    /\ lastOp.kind = "handle"
    /\ LastCall(lastOp).ev = "playById"
    /\ playingUniqueGuiId = LastCall(lastOp).uid
    /\ \E a \in Uids \ {playingUniqueGuiId} : vstate[a] = "playing"

\* C15: playKalturaPlayerByUniqueId(id, t) for an id with an attached handle
\* makes the adapter seek to t (when t is given) and then play, records id as
\* the current-playing identifier and requests the scroll of id's container.
C15_PlayByIdSeeksPlaysScrolls ==
    (/\ SingleCall(lastOp)
     /\ TheCall(lastOp).ev = "playById"
     /\ HasPlayerRef(TRUE, TheCall(lastOp).uid))
        => LET id == TheCall(lastOp).uid
               t == TheCall(lastOp).n
               cmds == IF ~instLive THEN <<>>
                       ELSE IF t # NoSeek
                       THEN <<Ev("seek", id, t, "player"),
                              Ev("play", id, NoSeek, "player")>>
                       ELSE <<Ev("play", id, NoSeek, "player")>>
           IN  /\ playingUniqueGuiId = id
               /\ lastOp.log = <<Ev("playById", id, t, "handle")>> \o cmds
                                   \o <<Ev("scroll", id, NoSeek, "handle")>>
               /\ instLive => vstate[id] = "playing"

\* an entry with a live player was played with a seek time
C15_Witness ==
    /\ SingleCall(lastOp)
    /\ TheCall(lastOp).ev = "playById"
    /\ TheCall(lastOp).n # NoSeek
    /\ instLive
    /\ Len(lastOp.log) = 4

\* C28: after the refs effect the registry holds one handle per entry of
\* data.ref under the entry's identifier, the identifiers are pairwise
\* distinct, every entry with an entry_id has exactly one Player attached to
\* its handle, and a play or pause by identifier reaches that Player alone.
C28_OneHandlePerEntry ==
    [][/\ Cardinality(RefKeys') = NumEntries
       /\ \A i \in Idx : Rendered(i)' => AttachedTo(RefAt(i).uniqueGuiId)' = {i}
       /\ (lastOp'.kind = "handle" /\ HasPlayerRef(TRUE, LastCall(lastOp').uid))
             => LET uid == LastCall(lastOp').uid
                    new == Issued(EventLog, lastOp'.log)
                    cmds == LogEvents(new, "play") \cup LogEvents(new, "pause")
                IN  /\ \A k \in cmds : new[k].uid = uid
                    /\ instLive => Cardinality(cmds) = 1
                    /\ \A u \in Uids \ {uid} : vstate'[u] = vstate[u]]_vars

\* the second entry of a result with two rendered entries was paused by
\* its identifier while the first kept playing
C28_Witness ==
    /\ lastOp.kind = "handle"
    /\ Rendered(0) /\ Rendered(1)
    /\ LastCall(lastOp).ev = "pauseById"
    /\ LastCall(lastOp).uid = RefAt(1).uniqueGuiId
    /\ vstate[RefAt(0).uniqueGuiId] = "playing"
    /\ vstate[RefAt(1).uniqueGuiId] = "paused"

\* ----------------------------------------------------- claims: player
LiveInstancesOf(p) ==
    { i \in 1 .. Len(instances) :
        instances[i].owner = p /\ ~instances[i].destroyed }

\* C2: after a Player adapter that held a live vendor instance has
\* unmounted, no instance it created is left undestroyed.
C2_UnmountDestroysInstance ==
    \A p \in Adapters : mounted[p] = "unmounted" => LiveInstancesOf(p) = {}

\* C12: at every moment a Player adapter owns at most one vendor instance
\* that was created and not destroyed.
C12_AtMostOneLiveInstance ==
    \A p \in Adapters : Cardinality(LiveInstancesOf(p)) <= 1

\* C3: however many Players mount, and in whatever order relative to the
\* script's load, the mounts append at most one vendor script element.
C3_ScriptAppendedOnce ==
    Cardinality({ k \in 1 .. Len(appended) : appended[k].by = "mount" }) <= 1

\* C27: the vendor script is requested from the kalturaServiceUrl configured
\* on the component, and from the default URL only when none, or an empty
\* one, is configured.
C27_ScriptUrlUsesConfiguredService ==
    \A k \in 1 .. Len(appended) :
        appended[k].url =
            <<IF serviceUrl \in {"", "null"} THEN DEFAULT_KALTURA_URL
              ELSE serviceUrl,
              "/p/", appended[k].clos.config, "/embedPlaykitJs/uiconf_id/",
              appended[k].clos.config>>

\* C29: every Player of the gallery is set up with autoplay equal to the
\* startInAutoPlay of the search view.
C29_StartInAutoPlayReachesPlayers ==
    \A i \in 1 .. Len(instances) : instances[i].autoplay = startInAutoPlay

\* the adapter's state holds an instance that was not destroyed
HasLiveInstance(p) ==
    /\ playerInstance[p] # NullInst
    /\ ~instances[playerInstance[p]].destroyed

\* the vendor players set up for adapter p so far
InstancesOf(insts, p) == { i \in 1 .. Len(insts) : insts[i].owner = p }

\* C23: a change of isPlaying, seekTo or entryId of a Player with a live
\* instance destroys no instance, sets none up and requests no script; a
\* change of entryId loads the new entry into the existing instance; and
\* every setup after the first answers a change of partnerId / uiConfId.
C23_PropChangeKeepsInstance ==
    [][\A p \in Adapters :
         /\ (/\ HasLiveInstance(p)
             /\ \/ isPlaying'[p] # isPlaying[p]
                \/ seekToProp'[p] # seekToProp[p]
                \/ entryId'[p] # entryId[p])
               => /\ playerInstance'[p] = playerInstance[p]
                  /\ Len(instances') = Len(instances)
                  /\ \A i \in 1 .. Len(instances) :
                         instances'[i].destroyed = instances[i].destroyed
                  /\ appended' = appended
                  /\ pendingScripts' = pendingScripts
                  /\ entryId'[p] # entryId[p]
                        => instances'[playerInstance[p]].entryId = entryId'[p]
         /\ Cardinality(InstancesOf(instances', p)) <= 1 + configChanges']_vars

\* the props of a Player with its first instance were changed: the instance
\* has been told to play, to seek and to load another entry
C23_Witness ==
    /\ Len(instances) = 1
    /\ HasLiveInstance(1)
    /\ instances[1].lastCmd = "play"
    /\ instances[1].currentTime = 7
    /\ instances[1].entryId = "e2"

\* C24: a Player driven by its props alone has, whenever it holds a live
\* instance, last told it to play if isPlaying is true and not to play
\* otherwise, also when isPlaying was true before the setup completed.
C24_LastCommandMatchesIsPlaying ==
    \A p \in Adapters :
        (mounted[p] = "mounted" /\ HasLiveInstance(p) /\ handleCalls = 0)
            => (instances[playerInstance[p]].lastCmd = "play") = isPlaying[p]

\* the calls of props.onError made for the e-th ERROR event
CallsFor(e) == { k \in 1 .. Len(onErrorCalls) : onErrorCalls[k].event = e }

ScriptFailed(p) ==
    /\ \E k \in 1 .. Len(consoleErrors) : consoleErrors[k] = p
    /\ \A k \in 1 .. Len(pendingScripts) : pendingScripts[k].clos.owner # p
    /\ playerInstance[p] = NullInst

\* C26 as stated: once a vendor script of an adapter has failed to load,
\* setup is never run for the adapter and its instance stays absent.
C26_FailedScriptNeverUsable ==
    \A p \in Adapters :
        (\E k \in 1 .. Len(consoleErrors) : consoleErrors[k] = p)
            => /\ playerInstance[p] = NullInst
               /\ InstancesOf(instances, p) = {}

\* C26 as amended: the failure of a script is logged and its handler leaves
\* the script-loaded flag as it is and runs no setup; while no other script
\* of the adapter is loading and its partnerId / uiConfId do not change, its
\* instance stays absent and calls on its handle do nothing.
C26_FailedScriptUnusableUntilReconfigured ==
    [][/\ Len(consoleErrors') > Len(consoleErrors)
             => /\ scriptLoadedGlobally' = scriptLoadedGlobally
                /\ instances' = instances
                /\ playerInstance' = playerInstance
                /\ appended' = appended
       /\ \A p \in Adapters :
             (ScriptFailed(p) /\ config'[p] = config[p])
                 => /\ playerInstance'[p] = NullInst
                    /\ InstancesOf(instances', p) = InstancesOf(instances, p)
                    /\ handleCalls' # handleCalls => instances' = instances]_vars

\* the handle of a Player whose only script failed was called
C26_Witness ==
    /\ ScriptFailed(1)
    /\ mounted[1] = "mounted"
    /\ Len(appended) = 1
    /\ handleCalls > 0

\* the vendor scripts that have loaded: appended, not loading any more and
\* not failed
ScriptsLoaded == Len(appended) - Len(pendingScripts) - Len(consoleErrors)

\* C31: the script-loaded flag is unset at the start; it is set only by the
\* onload of a vendor script that has loaded, never by a load error and never
\* while no script has loaded; once set no mount, unmount, prop change or
\* error resets it.
C31_FlagSetOnlyByOnload ==
    /\ scriptLoadedGlobally = FALSE
    /\ [](scriptLoadedGlobally => ScriptsLoaded >= 1)
    /\ [][/\ scriptLoadedGlobally => scriptLoadedGlobally'
          /\ (~scriptLoadedGlobally /\ scriptLoadedGlobally')
                => /\ ScriptsLoaded' = ScriptsLoaded + 1
                   /\ consoleErrors' = consoleErrors
          /\ Len(consoleErrors') > Len(consoleErrors)
                => scriptLoadedGlobally' = scriptLoadedGlobally]_vars

\* the flag was set by one script; after that another script of the Player
\* failed to load and the Player unmounted
C31_Witness ==
    /\ scriptLoadedGlobally
    /\ Len(appended) = 2
    /\ Len(consoleErrors) = 1
    /\ pendingScripts = <<>>
    /\ mounted[1] = "unmounted"

\* C32: whenever a Player holds a live instance, the entry loaded in the
\* instance is the one its entryId prop names, also when entryId changed
\* while the vendor script was loading.
C32_InstanceLoadsCurrentEntry ==
    \A p \in Adapters :
        (mounted[p] = "mounted" /\ HasLiveInstance(p))
            => instances[playerInstance[p]].entryId = entryId[p]

\* C35: no vendor instance is created for a Player after it has unmounted:
\* a vendor script that finishes loading after the unmount runs no setup for
\* the unmounted adapter.
C35_NoSetupAfterUnmount ==
    [][\A p \in Adapters :
         mounted[p] = "unmounted"
            => /\ InstancesOf(instances', p) = InstancesOf(instances, p)
               /\ playerInstance'[p] = playerInstance[p]]_vars

\* the script the Player requested has loaded after the Player unmounted
C35_Witness ==
    /\ mounted[1] = "unmounted"
    /\ scriptLoadedGlobally
    /\ Len(appended) = 1
    /\ pendingScripts = <<>>
    /\ consoleErrors = <<>>
    /\ instances = <<>>

\* ----------------------------------------------------- claims: search
\* C17: from the Errored state, committing any non-blank query (Enter key or
\* search button), the one that just failed included, issues a new request
\* and moves the view to Loading.
C17_RetryFromErrored ==
    (/\ searchOp.kind \in {"commit", "noCommit"}
     /\ searchOp.from = "Errored"
     /\ Trim(searchQuery) # <<>>)
        => /\ searchOp.issued = 1
           /\ View = "Loading"

\* C18: the view renders Empty only while no query has ever been committed,
\* and renders Loading whenever a search request is in flight.
C18_ViewStates ==
    /\ View = "Empty" => lastSearchQuery = <<>>
    /\ inflight # <<>> => View = "Loading"

\* C19: an accepted commit issues exactly one request, carrying the committed
\* query; no other step (typing, a refused commit, the arrival of a response
\* or of a failure) issues a request.
C19_OneRequestPerCommit ==
    /\ searchOp.kind = "commit"
          => /\ searchOp.issued = 1
             /\ inflight[Len(inflight)] = lastSearchQuery
             /\ lastSearchQuery = searchQuery
    /\ searchOp.kind # "commit" => searchOp.issued = 0

\* a second query was committed while the request of the first was
\* outstanding
C19_Witness ==
    /\ searchOp.kind = "commit"
    /\ Len(inflight) = 2
    /\ inflight[1] # inflight[2]

\* C20: when a search request fails the view is Errored, isLoading and
\* isSearching are false, and the failure issues no request.
C20_FailureShowsError ==
    searchOp.kind = "rejected"
        => /\ View = "Errored"
           /\ error
           /\ ~isLoading
           /\ ~isSearching
           /\ searchOp.issued = 0

\* a request failed after an earlier one had brought results
C20_Witness ==
    /\ searchOp.kind = "rejected"
    /\ ~data.null
    /\ inflight = <<>>

\* C21: a successful response whose ref list is empty puts the view in the
\* Loaded state, with no gallery item and no sentence row, and without the
\* error state.
C21_EmptyRefListLoads ==
    (searchOp.kind = "resolved" /\ data.refs = <<>>)
        => /\ View = "Loaded"
           /\ ~error
           /\ ~data.null
           /\ Len(GalleryItems(data)) = 0
           /\ Len(SentenceRows(data)) = 0

\* a response without references arrived after an earlier request had failed
C21_Witness ==
    /\ searchOp.kind = "resolved"
    /\ searchOp.from = "Errored"
    /\ ~data.null
    /\ data.refs = <<>>

\* C22: an accepted commit leaves data null before its request is answered,
\* and a Loaded view shows the entries of exactly one response, in the order
\* of the response, never entries of two responses.
C22_OneResultLive ==
    /\ searchOp.kind = "commit" => data.null
    /\ View = "Loaded" =>
          /\ \A k \in 1 .. Len(data.refs) :
                 data.refs[k].query = data.query /\ data.refs[k].pos = k
          /\ SentenceRows(data) = data.refs

\* a query was committed while the result of an earlier one was shown
C22_Witness ==
    /\ searchOp.kind = "commit"
    /\ searchOp.from = "Loaded"
    /\ data.null

\* C36: a commit (Enter key or search button) of a text that is empty or
\* blank, or that equals the last committed query, issues no request and
\* leaves lastSearchQuery, isSearching, the result and the view as they are.
C36_RefusedCommitChangesNothing ==
    [][(/\ searchOp'.kind \in {"commit", "noCommit"}
        /\ Trim(searchQuery) = <<>> \/ searchQuery = lastSearchQuery)
          => /\ inflight' = inflight
             /\ searchOp'.issued = 0
             /\ lastSearchQuery' = lastSearchQuery
             /\ isSearching' = isSearching
             /\ data' = data
             /\ isLoading' = isLoading
             /\ error' = error
             /\ View' = View]_vars

\* the query shown as the Loaded result was committed again
C36_Witness ==
    /\ searchOp.kind = "noCommit"
    /\ searchOp.from = "Loaded"
    /\ searchQuery = lastSearchQuery
    /\ data.query = lastSearchQuery
    /\ ~isSearching

\* C37: if every request is answered in the end, then after every commit the
\* view leaves Loading and isSearching returns to false, and isSearching
\* becomes true again by a commit only, whatever the order of commits and
\* answers.
C37_SearchSettles ==
    /\ (searchOp.kind = "commit") ~> (View # "Loading")
    /\ (searchOp.kind = "commit") ~> ~isSearching
    /\ [][(~isSearching /\ isSearching') => searchOp'.kind = "commit"]_vars

\* two queries were committed and the answer to the first came last: no
\* request is outstanding, the view has left Loading and isSearching is false
C37_Witness ==
    /\ searchOp.kind \in {"resolved", "rejected"}
    /\ inflight = <<>>
    /\ ~data.null
    /\ data.query # lastSearchQuery
    /\ View # "Loading"
    /\ ~isSearching

\* C4: a response is never shown as the Loaded result unless it answers the
\* query committed last.
C4_LoadedIsLastCommitted ==
    View = "Loaded" => data.query = lastSearchQuery

====
